---- MODULE Spec2Model ----
(***************************************************************************)
(* Model of the order priority queues of dalal-street-server               *)
(* (src/socketapi/repl/repl.go, package models, lines 248-553).            *)
(*                                                                         *)
(* BidPQueue and AskPQueue are line-for-line copies of one another that    *)
(* differ only in the payload type (Bid or Ask); one queue is modelled     *)
(* and `side` records which constructor built it.                          *)
(*                                                                         *)
(* The Go slice pq.items is a TLA+ sequence shifted by one: Go slot i is   *)
(* position i+1 (operator At).  A *bidItem is a record; the nil pointer    *)
(* is NilItem.  Every statement of a method is one step of the thread      *)
(* that runs it, so that the interleavings the RWMutex allows (and the     *)
(* ones it forbids) are states of the model.  A call and its entry into    *)
(* Lock or RLock are one step: a thread that waits for the lock does       *)
(* nothing until it has it.                                                *)
(*                                                                         *)
(* Spec      threads calling Push, Pop, Head, Size, Empty in any order     *)
(* SpecHist  the same, with the history of what the calls returned         *)
(* SpecConc  M concurrent Push calls, then M Pop calls one after another   *)
(* SpecCmp   the comparator a constructor binds, applied once              *)
(***************************************************************************)
EXTENDS Integers, Sequences, FiniteSets, TLC

\* ------------------------------------------------------------------ bounds
\* Threads calling into one queue (Spec).
NThreads == 2
\* Push is not started when this many entries are live (caps elemsCount):
\* in Spec, and in SpecHist.
MaxSize == 4
HistMaxSize == 3
\* The same cap in SpecBook and in SpecLive.
BookMaxSize == 3
LiveMaxSize == 3
\* The console: session ids in use, goroutines calling Handle at once, and
\* the sessions created in one run.
NSids == 2
NHandlers == 2
MaxSessions == 2
\* Largest number of concurrent pushers of SpecConc.
MaxPushers == 4

\* ---------------------------------------------------------------- constants
MAXPQ == 0
MINPQ == 1
\* Prices and quantities are uint32 and are only ever compared; the largest
\* integer the model checker represents stands for the large ones.
BigUint32 == (2^30 - 1) * 2 + 1

Nil == "nil"
NilItem == [value |-> Nil, price |-> 0, quantity |-> 0]
\* The result slots of a call: Pop and Head fill value, Size size, Empty empty.
NoRet == [value |-> Nil, size |-> 0, empty |-> FALSE]
NoPeek == [val |-> "none", items |-> <<>>, count |-> -1, n |-> 0]
NoDrain == [of |-> -1, left |-> -1]

\* The orders a caller may push: the four entries of the pop-order tests
\* and a fifth that ties with the first on price and on quantity.
Orders ==
  << [value |-> "A", price |-> 10, quantity |-> 5],
     [value |-> "B", price |-> 20, quantity |-> 1],
     [value |-> "C", price |-> 20, quantity |-> 9],
     [value |-> "D", price |-> 15, quantity |-> 3],
     [value |-> "E", price |-> 10, quantity |-> 5] >>
OrderIds == 1..Len(Orders)
\* The orders the callers of Spec push: a pair that ties on price (B, C), a
\* pair that ties on price and quantity (A, E), and two distinct prices.
SpecOrderIds == {1, 2, 3, 5}

Threads == 1..NThreads

\* Prices and quantities the comparators are applied to (SpecCmp).
U32Samples == {0, 1, 2, BigUint32}

VARIABLES
  side,        \* "Bid" | "Ask": which constructor built the queue
  pqType,      \* the constructor's argument
  comparator,  \* pq.comparator: "bidComparator" | "askComparator"
  items,       \* pq.items
  elemsCount,  \* pq.elemsCount
  w,           \* RWMutex: the thread that called Lock and has not yet called Unlock (0: none)
  readers,     \* RWMutex: the threads between RLock and RUnlock
  pc,          \* per thread: the statement it is at
  item,        \* per thread: Push's local `item`
  k,           \* per thread: swim's / sink's `k`
  max,         \* per thread: Pop's local `max`
  ret,         \* per thread: what the call returns, one field per result type
  \* history variables: what the callers have seen so far
  snap,        \* per thread: pq.items when Pop's Lock returned
  peeked,      \* the first Head result since the last Push or Pop, with the queue it saw
  drain,       \* since the last Push: what the last Size call returned (of) and how many
               \* Pop calls are still to complete of that many (left)
  pushes,      \* Push calls completed while no Pop was ever called (-1 after a Pop call)
  pushed,      \* SpecConc: the items pushed, in the order the pushes completed
  popped,      \* SpecConc: the entries popped, in order
  live,        \* SpecBook: per entry, how often it was pushed and not yet popped
  lastDone,    \* SpecBook: the last Push or Pop call that returned
  cmpIn,       \* SpecCmp: <<price1, quantity1, price2, quantity2>>
  cmpOut,      \* SpecCmp: <<the comparator's result>> (<<>> before the call)
  \* the console (SpecRepl)
  cmdSessions,       \* sid -> the session registered under it (0: no entry)
  cmdSessionsMutex,  \* the goroutine that holds the mutex (NoOne: unlocked)
  done,              \* sid -> the connection's done channel is closed
  inClosed,          \* session -> its `in` channel is closed
  out,               \* session -> the buffer of its `out` channel (capacity 1)
  handle,            \* per caller: the Handle call it is in
  command,           \* per session: the goroutine running replCmds[cmd](session)
  cleanup,           \* per session: the goroutine waiting for done
  crashed,           \* a goroutine panicked with nothing to recover it: the process is gone
  \* history variables of the console
  orphaned,          \* SpecRepl: the sessions whose done closed while their command was in s.read
  trail,             \* SpecRepl: per caller, what its Handle call found under sid
  confirm            \* SpecCmds: per session, the prompts sent and the last line read

core == <<side, pqType, comparator, items, elemsCount, w, readers, pc, item, k, max, ret>>
hist == <<snap, peeked, drain, pushes, pushed, popped, live, lastDone>>
repl == <<cmdSessions, cmdSessionsMutex, done, inClosed, out, handle, command, cleanup, crashed,
          orphaned, trail, confirm>>
vars == <<side, pqType, comparator, items, elemsCount, w, readers, pc, item, k, max, ret,
          snap, peeked, drain, pushes, pushed, popped, live, lastDone, cmpIn, cmpOut,
          cmdSessions, cmdSessionsMutex, done, inClosed, out, handle, command, cleanup, crashed,
          orphaned, trail, confirm>>

\* ------------------------------------------------------------- comparators
\* Seeded fault: on equal prices the smaller quantity wins.
bidComparator_smallerQuantity(price1, quantity1, price2, quantity2) ==
  IF price1 < price2 THEN TRUE
  ELSE IF price1 > price2 THEN FALSE
  ELSE quantity2 < quantity1

bidComparator(price1, quantity1, price2, quantity2) ==
  IF price1 < price2 THEN TRUE
  ELSE IF price1 > price2 THEN FALSE
  ELSE quantity2 > quantity1

\* Seeded fault: on equal prices the smaller quantity wins.
askComparator_smallerQuantity(price1, quantity1, price2, quantity2) ==
  IF price1 > price2 THEN TRUE
  ELSE IF price1 < price2 THEN FALSE
  ELSE quantity2 < quantity1

askComparator(price1, quantity1, price2, quantity2) ==
  IF price1 > price2 THEN TRUE
  ELSE IF price1 < price2 THEN FALSE
  ELSE quantity2 > quantity1

\* pq.comparator(...): the call through the function value bound at construction
Compare(cmp, price1, quantity1, price2, quantity2) ==
  IF cmp = "bidComparator" THEN bidComparator(price1, quantity1, price2, quantity2)
  ELSE askComparator(price1, quantity1, price2, quantity2)

NewBidPQueue(type) ==
  [items |-> <<NilItem>>, elemsCount |-> 0,
   comparator |-> IF type = MAXPQ THEN "bidComparator" ELSE "askComparator"]

\* Seeded fault: the ask constructor binds the comparators the other way round.
NewAskPQueue_swapped(type) ==
  [items |-> <<NilItem>>, elemsCount |-> 0,
   comparator |-> IF type = MAXPQ THEN "askComparator" ELSE "bidComparator"]

NewAskPQueue(type) ==
  [items |-> <<NilItem>>, elemsCount |-> 0,
   comparator |-> IF type = MAXPQ THEN "bidComparator" ELSE "askComparator"]

newBidItem(o) == [value |-> o.value, price |-> o.price, quantity |-> o.quantity]

\* ------------------------------------------------------------ heap helpers
At(its, i) == its[i + 1]

less(cmp, its, i, j) ==
  Compare(cmp, At(its, i).price, At(its, i).quantity, At(its, j).price, At(its, j).quantity)

exch(its, i, j) ==
  [its EXCEPT ![i + 1] = At(its, j), ![j + 1] = At(its, i)]

\* The Go runtime panics on an index outside the slice and on a field of a
\* nil pointer; a step that would do either ends in "panic" instead.
InRange(its, i) == i >= 0 /\ i < Len(its)
CanLess(its, i, j) ==
  /\ InRange(its, i) /\ At(its, i) # NilItem
  /\ InRange(its, j) /\ At(its, j) # NilItem

\* Seeded fault: swim's loop stops one level below the root: `k > 2`.
swim_belowRoot(cmp, its, kk) ==
  IF kk > 2
  THEN IF ~CanLess(its, kk \div 2, kk)
       THEN [items |-> its, k |-> kk, done |-> TRUE, panic |-> TRUE]
       ELSE IF less(cmp, its, kk \div 2, kk)
       THEN [items |-> exch(its, kk \div 2, kk), k |-> kk \div 2, done |-> FALSE, panic |-> FALSE]
       ELSE [items |-> its, k |-> kk, done |-> TRUE, panic |-> FALSE]
  ELSE [items |-> its, k |-> kk, done |-> TRUE, panic |-> FALSE]

\* Seeded fault: swim's loop runs at the root too: `k >= 1`.
swim_atRoot(cmp, its, kk) ==
  IF kk >= 1
  THEN IF ~CanLess(its, kk \div 2, kk)
       THEN [items |-> its, k |-> kk, done |-> TRUE, panic |-> TRUE]
       ELSE IF less(cmp, its, kk \div 2, kk)
       THEN [items |-> exch(its, kk \div 2, kk), k |-> kk \div 2, done |-> FALSE, panic |-> FALSE]
       ELSE [items |-> its, k |-> kk, done |-> TRUE, panic |-> FALSE]
  ELSE [items |-> its, k |-> kk, done |-> TRUE, panic |-> FALSE]

\* One evaluation of swim's loop condition and, when it holds, of its body.
swim(cmp, its, kk) ==
  IF kk > 1
  THEN IF ~CanLess(its, kk \div 2, kk)
       THEN [items |-> its, k |-> kk, done |-> TRUE, panic |-> TRUE]
       ELSE IF less(cmp, its, kk \div 2, kk)
       THEN [items |-> exch(its, kk \div 2, kk), k |-> kk \div 2, done |-> FALSE, panic |-> FALSE]
       ELSE [items |-> its, k |-> kk, done |-> TRUE, panic |-> FALSE]
  ELSE [items |-> its, k |-> kk, done |-> TRUE, panic |-> FALSE]

\* Seeded fault: sink never looks at the right child.
sink_leftOnly(cmp, its, n, kk) ==
  IF 2 * kk <= n
  THEN LET j == 2 * kk
       IN IF ~CanLess(its, kk, j)
          THEN [items |-> its, k |-> kk, done |-> TRUE, panic |-> TRUE]
          ELSE IF ~less(cmp, its, kk, j)
          THEN [items |-> its, k |-> kk, done |-> TRUE, panic |-> FALSE]
          ELSE [items |-> exch(its, kk, j), k |-> j, done |-> FALSE, panic |-> FALSE]
  ELSE [items |-> its, k |-> kk, done |-> TRUE, panic |-> FALSE]

\* One evaluation of sink's loop condition and, when it holds, of its body.
sink(cmp, its, n, kk) ==
  IF 2 * kk <= n
  THEN LET j0 == 2 * kk
           right == j0 < n
           j  == IF right /\ less(cmp, its, j0, j0 + 1) THEN j0 + 1 ELSE j0
       IN IF ~CanLess(its, kk, j0) \/ (right /\ ~CanLess(its, j0, j0 + 1))
          THEN [items |-> its, k |-> kk, done |-> TRUE, panic |-> TRUE]
          ELSE IF ~less(cmp, its, kk, j)
          THEN [items |-> its, k |-> kk, done |-> TRUE, panic |-> FALSE]
          ELSE [items |-> exch(its, kk, j), k |-> j, done |-> FALSE, panic |-> FALSE]
  ELSE [items |-> its, k |-> kk, done |-> TRUE, panic |-> FALSE]

size(ec) == ec

\* Seeded fault: Pop does not drop the last slot.
truncate_keepsLast(its, n) == its

\* Pop's `pq.items = pq.items[0:pq.size()]`
truncate(its, n) == SubSeq(its, 1, n)

\* Seeded fault: Pop captures the last slot instead of the root.
popMax_last(its) == At(its, Len(its) - 1)

\* Pop's `max = pq.items[1]`
popMax(its) == At(its, 1)

\* Seeded fault: Head reads the last slot instead of the root.
headValue_last(its) == At(its, Len(its) - 1).value

\* Head's `pq.items[1].value`
headValue(its) == At(its, 1).value

\* ------------------------------------------------------------------ RWMutex
\* sync.RWMutex: Lock first excludes the other writers and new readers, then
\* waits for the readers that are in; RLock waits while a writer holds the
\* lock or waits for it.
LockBegin(t) == w = 0 /\ w' = t
LockDone(t) == w = t /\ readers = {}
Unlock(t) == w = t /\ w' = 0
\* Seeded fault: RLock does not wait for the writer.
RLock_ignoresWriter(t) == readers' = readers \cup {t}
RLock(t) == w = 0 /\ readers' = readers \cup {t}
RUnlock(t) == t \in readers /\ readers' = readers \ {t}

Goto(t, l) == pc' = [pc EXCEPT ![t] = l]

\* --------------------------------------------------------------------- Init
\* The entries the callers' orders become.
Entries == {newBidItem(Orders[o]) : o \in OrderIds}

InitQueue ==
  /\ pqType \in {MAXPQ, MINPQ}
  /\ LET q == IF side = "Bid" THEN NewBidPQueue(pqType) ELSE NewAskPQueue(pqType)
     IN /\ items = q.items
        /\ elemsCount = q.elemsCount
        /\ comparator = q.comparator
  /\ w = 0
  /\ readers = {}

InitLocals(T) ==
  /\ k = [t \in T |-> 0]
  /\ max = [t \in T |-> NilItem]
  /\ ret = [t \in T |-> NoRet]
  /\ snap = [t \in T |-> <<>>]
  /\ peeked = NoPeek
  /\ drain = NoDrain
  /\ pushes = 0
  /\ pushed = <<>>
  /\ popped = <<>>
  /\ live = [e \in Entries |-> 0]
  /\ lastDone = "none"
  /\ cmdSessions = <<>>
  /\ cmdSessionsMutex = <<>>
  /\ done = <<>>
  /\ inClosed = <<>>
  /\ out = <<>>
  /\ handle = <<>>
  /\ command = <<>>
  /\ cleanup = <<>>
  /\ crashed = FALSE
  /\ orphaned = {}
  /\ trail = <<>>
  /\ confirm = <<>>

Init ==
  /\ side = "Bid"
  /\ InitQueue
  /\ pc = [t \in Threads |-> "idle"]
  /\ item = [t \in Threads |-> NilItem]
  /\ InitLocals(Threads)
  /\ cmpIn = <<0, 0, 0, 0>>
  /\ cmpOut = <<>>

\* --------------------------------------------------------------------- Push
\* Push(value, price, quantity): the call builds the item and enters Lock.
CallPush(t, o) ==
  /\ pc[t] = "idle"
  /\ item' = [item EXCEPT ![t] = newBidItem(Orders[o])]
  /\ LockBegin(t)
  /\ Goto(t, "PushLock")
  /\ UNCHANGED <<side, pqType, comparator, items, elemsCount, readers, k, max, ret>>

PushLock(t) ==
  /\ pc[t] = "PushLock"
  /\ LockDone(t)
  /\ Goto(t, "PushAppend")
  /\ UNCHANGED <<side, pqType, comparator, items, elemsCount, w, readers, item, k, max, ret>>

PushAppend(t) ==
  /\ pc[t] = "PushAppend"
  /\ items' = Append(items, item[t])
  /\ Goto(t, "PushIncr")
  /\ UNCHANGED <<side, pqType, comparator, elemsCount, w, readers, item, k, max, ret>>

\* Seeded fault: Push does not count the entry it appended.
PushIncr_noCount(t) ==
  /\ pc[t] = "PushIncr"
  /\ k' = [k EXCEPT ![t] = elemsCount]
  /\ Goto(t, "PushSwim")
  /\ UNCHANGED <<side, pqType, comparator, items, elemsCount, w, readers, item, max, ret>>

PushIncr(t) ==
  /\ pc[t] = "PushIncr"
  /\ elemsCount' = elemsCount + 1
  /\ k' = [k EXCEPT ![t] = elemsCount']
  /\ Goto(t, "PushSwim")
  /\ UNCHANGED <<side, pqType, comparator, items, w, readers, item, max, ret>>

PushSwim(t) ==
  /\ pc[t] = "PushSwim"
  /\ LET r == swim(comparator, items, k[t])
     IN /\ items' = r.items
        /\ k' = [k EXCEPT ![t] = r.k]
        /\ Goto(t, IF r.panic THEN "panic" ELSE IF r.done THEN "PushUnlock" ELSE "PushSwim")
  /\ UNCHANGED <<side, pqType, comparator, elemsCount, w, readers, item, max, ret>>

PushUnlock(t) ==
  /\ pc[t] = "PushUnlock"
  /\ Unlock(t)
  /\ Goto(t, "idle")
  /\ item' = [item EXCEPT ![t] = NilItem]
  /\ k' = [k EXCEPT ![t] = 0]
  /\ UNCHANGED <<side, pqType, comparator, items, elemsCount, readers, max, ret>>

\* ---------------------------------------------------------------------- Pop
CallPop(t) ==
  /\ pc[t] = "idle"
  /\ LockBegin(t)
  /\ Goto(t, "PopLock")
  /\ UNCHANGED <<side, pqType, comparator, items, elemsCount, readers, item, k, max, ret>>

PopLock(t) ==
  /\ pc[t] = "PopLock"
  /\ LockDone(t)
  /\ Goto(t, "PopCheck")
  /\ UNCHANGED <<side, pqType, comparator, items, elemsCount, w, readers, item, k, max, ret>>

\* A panic inside Pop: the deferred Unlock runs and the panic goes to the caller.
PopPanic(t) ==
  /\ Unlock(t)
  /\ Goto(t, "panic")

\* `if pq.size() < 1 { return nil }`, else `max = pq.items[1]`
PopCheck(t) ==
  /\ pc[t] = "PopCheck"
  /\ IF size(elemsCount) < 1
     THEN /\ ret' = [ret EXCEPT ![t].value = Nil]
          /\ Goto(t, "PopUnlock")
          /\ UNCHANGED <<max, w>>
     ELSE IF ~InRange(items, 1)
     THEN /\ PopPanic(t)
          /\ UNCHANGED <<max, ret>>
     ELSE /\ max' = [max EXCEPT ![t] = popMax(items)]
          /\ Goto(t, "PopExch")
          /\ UNCHANGED <<ret, w>>
  /\ UNCHANGED <<side, pqType, comparator, items, elemsCount, readers, item, k>>

PopExch(t) ==
  /\ pc[t] = "PopExch"
  /\ IF InRange(items, 1) /\ InRange(items, size(elemsCount))
     THEN /\ items' = exch(items, 1, size(elemsCount))
          /\ Goto(t, "PopTrunc")
          /\ UNCHANGED w
     ELSE /\ PopPanic(t)
          /\ UNCHANGED items
  /\ UNCHANGED <<side, pqType, comparator, elemsCount, readers, item, k, max, ret>>

\* A slice expression panics beyond the capacity; the capacity is taken to
\* be the length.
PopTrunc(t) ==
  /\ pc[t] = "PopTrunc"
  /\ IF size(elemsCount) >= 0 /\ size(elemsCount) <= Len(items)
     THEN /\ items' = truncate(items, size(elemsCount))
          /\ Goto(t, "PopDecr")
          /\ UNCHANGED w
     ELSE /\ PopPanic(t)
          /\ UNCHANGED items
  /\ UNCHANGED <<side, pqType, comparator, elemsCount, readers, item, k, max, ret>>

\* Seeded fault: Pop does not decrement the count.
PopDecr_noCount(t) ==
  /\ pc[t] = "PopDecr"
  /\ k' = [k EXCEPT ![t] = 1]
  /\ Goto(t, "PopSink")
  /\ UNCHANGED <<side, pqType, comparator, items, elemsCount, w, readers, item, max, ret>>

PopDecr(t) ==
  /\ pc[t] = "PopDecr"
  /\ elemsCount' = elemsCount - 1
  /\ k' = [k EXCEPT ![t] = 1]
  /\ Goto(t, "PopSink")
  /\ UNCHANGED <<side, pqType, comparator, items, w, readers, item, max, ret>>

\* one turn of sink's loop; when it ends, `return max.value`
PopSink(t) ==
  /\ pc[t] = "PopSink"
  /\ LET r == sink(comparator, items, size(elemsCount), k[t])
     IN /\ items' = r.items
        /\ k' = [k EXCEPT ![t] = r.k]
        /\ IF r.panic \/ (r.done /\ max[t] = NilItem)
           THEN /\ PopPanic(t)
                /\ UNCHANGED ret
           ELSE IF r.done
           THEN /\ ret' = [ret EXCEPT ![t].value = max[t].value]
                /\ Goto(t, "PopUnlock")
                /\ UNCHANGED w
           ELSE /\ Goto(t, "PopSink")
                /\ UNCHANGED <<ret, w>>
  /\ UNCHANGED <<side, pqType, comparator, elemsCount, readers, item, max>>

\* the deferred Unlock; the caller then has ret[t]
PopUnlock(t) ==
  /\ pc[t] = "PopUnlock"
  /\ Unlock(t)
  /\ Goto(t, "idle")
  /\ k' = [k EXCEPT ![t] = 0]
  /\ max' = [max EXCEPT ![t] = NilItem]
  /\ ret' = [ret EXCEPT ![t] = NoRet]
  /\ UNCHANGED <<side, pqType, comparator, items, elemsCount, readers, item>>

\* --------------------------------------------------------------------- Head
CallHead(t) ==
  /\ pc[t] = "idle"
  /\ RLock(t)
  /\ Goto(t, "HeadCheck")
  /\ UNCHANGED <<side, pqType, comparator, items, elemsCount, w, item, k, max, ret>>

\* `if pq.size() < 1 { return nil }`, else `headValue := pq.items[1].value`;
\* on a panic the deferred RUnlock runs.
HeadCheck(t) ==
  /\ pc[t] = "HeadCheck"
  /\ IF size(elemsCount) < 1
     THEN /\ Goto(t, "HeadRUnlock")
          /\ ret' = [ret EXCEPT ![t].value = Nil]
          /\ UNCHANGED readers
     ELSE IF ~InRange(items, 1) \/ At(items, 1) = NilItem
     THEN /\ RUnlock(t)
          /\ Goto(t, "panic")
          /\ UNCHANGED ret
     ELSE /\ Goto(t, "HeadRUnlock")
          /\ ret' = [ret EXCEPT ![t].value = headValue(items)]
          /\ UNCHANGED readers
  /\ UNCHANGED <<side, pqType, comparator, items, elemsCount, w, item, k, max>>

HeadRUnlock(t) ==
  /\ pc[t] = "HeadRUnlock"
  /\ RUnlock(t)
  /\ Goto(t, "idle")
  /\ ret' = [ret EXCEPT ![t] = NoRet]
  /\ UNCHANGED <<side, pqType, comparator, items, elemsCount, w, item, k, max>>

\* --------------------------------------------------------------------- Size
CallSize(t) ==
  /\ pc[t] = "idle"
  /\ RLock(t)
  /\ Goto(t, "SizeRead")
  /\ UNCHANGED <<side, pqType, comparator, items, elemsCount, w, item, k, max, ret>>

SizeRead(t) ==
  /\ pc[t] = "SizeRead"
  /\ Goto(t, "SizeRUnlock")
  /\ ret' = [ret EXCEPT ![t].size = size(elemsCount)]
  /\ UNCHANGED <<side, pqType, comparator, items, elemsCount, w, readers, item, k, max>>

SizeRUnlock(t) ==
  /\ pc[t] = "SizeRUnlock"
  /\ RUnlock(t)
  /\ Goto(t, "idle")
  /\ ret' = [ret EXCEPT ![t] = NoRet]
  /\ UNCHANGED <<side, pqType, comparator, items, elemsCount, w, item, k, max>>

\* -------------------------------------------------------------------- Empty
CallEmpty(t) ==
  /\ pc[t] = "idle"
  /\ RLock(t)
  /\ Goto(t, "EmptyRead")
  /\ UNCHANGED <<side, pqType, comparator, items, elemsCount, w, item, k, max, ret>>

EmptyRead(t) ==
  /\ pc[t] = "EmptyRead"
  /\ Goto(t, "EmptyRUnlock")
  /\ ret' = [ret EXCEPT ![t].empty = (size(elemsCount) = 0)]
  /\ UNCHANGED <<side, pqType, comparator, items, elemsCount, w, readers, item, k, max>>

EmptyRUnlock(t) ==
  /\ pc[t] = "EmptyRUnlock"
  /\ RUnlock(t)
  /\ Goto(t, "idle")
  /\ ret' = [ret EXCEPT ![t] = NoRet]
  /\ UNCHANGED <<side, pqType, comparator, items, elemsCount, w, item, k, max>>

\* ------------------------------------------------------------ specification
\* Spec: NThreads threads call the five operations in any interleaving.
\* History: what Pop found when its Lock returned.
Observe(t) ==
  /\ snap' = [snap EXCEPT ![t] = IF pc[t] = "PopLock" THEN items
                                 ELSE IF pc'[t] = "idle" THEN <<>> ELSE @]
  /\ UNCHANGED <<peeked, drain, pushes, pushed, popped, live, lastDone, cmpIn, cmpOut, repl>>

Next ==
  \E t \in Threads :
    \/ \E o \in SpecOrderIds : elemsCount < MaxSize /\ CallPush(t, o) /\ Observe(t)
    \/ PushLock(t) /\ Observe(t)
    \/ PushAppend(t) /\ Observe(t)
    \/ PushIncr(t) /\ Observe(t)
    \/ PushSwim(t) /\ Observe(t)
    \/ PushUnlock(t) /\ Observe(t)
    \/ CallPop(t) /\ Observe(t)
    \/ PopLock(t) /\ Observe(t)
    \/ PopCheck(t) /\ Observe(t)
    \/ PopExch(t) /\ Observe(t)
    \/ PopTrunc(t) /\ Observe(t)
    \/ PopDecr(t) /\ Observe(t)
    \/ PopSink(t) /\ Observe(t)
    \/ PopUnlock(t) /\ Observe(t)
    \/ CallHead(t) /\ Observe(t)
    \/ HeadCheck(t) /\ Observe(t)
    \/ HeadRUnlock(t) /\ Observe(t)
    \/ CallSize(t) /\ Observe(t)
    \/ SizeRead(t) /\ Observe(t)
    \/ SizeRUnlock(t) /\ Observe(t)
    \/ CallEmpty(t) /\ Observe(t)
    \/ EmptyRead(t) /\ Observe(t)
    \/ EmptyRUnlock(t) /\ Observe(t)

Spec == Init /\ [][Next]_vars

\* ------------------------------------------------ the callers' observations
\* SpecHist: the same threads and steps, with the history of what the calls
\* returned: the first Head since the last Push or Pop, the last Size and the
\* Pop calls completed since, the Push calls completed before any Pop.
ObserveHist(t) ==
  /\ peeked' = IF pc[t] = "HeadCheck" /\ pc'[t] = "HeadRUnlock"
                  THEN IF peeked = NoPeek
                       THEN [val |-> ret'[t].value, items |-> items, count |-> elemsCount, n |-> 1]
                       ELSE [peeked EXCEPT !.n = 2]
                ELSE IF pc[t] \in {"PushAppend", "PopUnlock"} THEN NoPeek
                ELSE peeked
  /\ drain' = IF pc[t] = "SizeRead" THEN [of |-> ret'[t].size, left |-> ret'[t].size]
               ELSE IF pc[t] = "PushAppend" THEN NoDrain
               ELSE IF pc[t] = "PopUnlock" /\ drain.left > 0 THEN [drain EXCEPT !.left = @ - 1]
               ELSE drain
  /\ pushes' = IF pc[t] = "idle" /\ pc'[t] = "PopLock" THEN -1
                ELSE IF pc[t] = "PushUnlock" /\ pushes >= 0 THEN pushes + 1
                ELSE pushes
  /\ UNCHANGED <<snap, pushed, popped, live, lastDone, cmpIn, cmpOut, repl>>

NextHist ==
  \E t \in Threads :
    \/ \E o \in SpecOrderIds : elemsCount < HistMaxSize /\ CallPush(t, o) /\ ObserveHist(t)
    \/ PushLock(t) /\ ObserveHist(t)
    \/ PushAppend(t) /\ ObserveHist(t)
    \/ PushIncr(t) /\ ObserveHist(t)
    \/ PushSwim(t) /\ ObserveHist(t)
    \/ PushUnlock(t) /\ ObserveHist(t)
    \/ CallPop(t) /\ ObserveHist(t)
    \/ PopLock(t) /\ ObserveHist(t)
    \/ PopCheck(t) /\ ObserveHist(t)
    \/ PopExch(t) /\ ObserveHist(t)
    \/ PopTrunc(t) /\ ObserveHist(t)
    \/ PopDecr(t) /\ ObserveHist(t)
    \/ PopSink(t) /\ ObserveHist(t)
    \/ PopUnlock(t) /\ ObserveHist(t)
    \/ CallHead(t) /\ ObserveHist(t)
    \/ HeadCheck(t) /\ ObserveHist(t)
    \/ HeadRUnlock(t) /\ ObserveHist(t)
    \/ CallSize(t) /\ ObserveHist(t)
    \/ SizeRead(t) /\ ObserveHist(t)
    \/ SizeRUnlock(t) /\ ObserveHist(t)
    \/ CallEmpty(t) /\ ObserveHist(t)
    \/ EmptyRead(t) /\ ObserveHist(t)
    \/ EmptyRUnlock(t) /\ ObserveHist(t)

SpecHist == Init /\ [][NextHist]_vars

\* ------------------------------------------------------------ the bookkeeping
\* SpecBook: the same threads and steps, with the entries pushed and not yet
\* popped (by the payloads the Pop calls returned) and the last call to return.
ObserveBook(t) ==
  /\ live' = IF pc[t] = "PushUnlock" THEN [live EXCEPT ![item[t]] = @ + 1]
             ELSE IF pc[t] = "PopUnlock" /\ ret[t].value # Nil
             THEN [live EXCEPT ![CHOOSE e \in Entries : e.value = ret[t].value] = @ - 1]
             ELSE live
  /\ lastDone' = IF pc[t] = "PushUnlock" THEN "Push"
                 ELSE IF pc[t] = "PopUnlock" THEN (IF ret[t].value = Nil THEN "PopEmpty" ELSE "Pop")
                 ELSE lastDone
  /\ UNCHANGED <<snap, peeked, drain, pushes, pushed, popped, cmpIn, cmpOut, repl>>

NextBook ==
  \E t \in Threads :
    \/ \E o \in SpecOrderIds : elemsCount < BookMaxSize /\ CallPush(t, o) /\ ObserveBook(t)
    \/ PushLock(t) /\ ObserveBook(t)
    \/ PushAppend(t) /\ ObserveBook(t)
    \/ PushIncr(t) /\ ObserveBook(t)
    \/ PushSwim(t) /\ ObserveBook(t)
    \/ PushUnlock(t) /\ ObserveBook(t)
    \/ CallPop(t) /\ ObserveBook(t)
    \/ PopLock(t) /\ ObserveBook(t)
    \/ PopCheck(t) /\ ObserveBook(t)
    \/ PopExch(t) /\ ObserveBook(t)
    \/ PopTrunc(t) /\ ObserveBook(t)
    \/ PopDecr(t) /\ ObserveBook(t)
    \/ PopSink(t) /\ ObserveBook(t)
    \/ PopUnlock(t) /\ ObserveBook(t)
    \/ CallHead(t) /\ ObserveBook(t)
    \/ HeadCheck(t) /\ ObserveBook(t)
    \/ HeadRUnlock(t) /\ ObserveBook(t)
    \/ CallSize(t) /\ ObserveBook(t)
    \/ SizeRead(t) /\ ObserveBook(t)
    \/ SizeRUnlock(t) /\ ObserveBook(t)
    \/ CallEmpty(t) /\ ObserveBook(t)
    \/ EmptyRead(t) /\ ObserveBook(t)
    \/ EmptyRUnlock(t) /\ ObserveBook(t)

SpecBook == Init /\ [][NextBook]_vars

\* ------------------------------------------------------------- fair schedule
\* SpecLive: the threads and steps of Spec under a scheduler that lets every
\* thread that is inside a call and can take a step take one eventually. A
\* thread is free never to call again.
Step(t) ==
  \/ PushLock(t) /\ Observe(t)
  \/ PushAppend(t) /\ Observe(t)
  \/ PushIncr(t) /\ Observe(t)
  \/ PushSwim(t) /\ Observe(t)
  \/ PushUnlock(t) /\ Observe(t)
  \/ PopLock(t) /\ Observe(t)
  \/ PopCheck(t) /\ Observe(t)
  \/ PopExch(t) /\ Observe(t)
  \/ PopTrunc(t) /\ Observe(t)
  \/ PopDecr(t) /\ Observe(t)
  \/ PopSink(t) /\ Observe(t)
  \/ PopUnlock(t) /\ Observe(t)
  \/ HeadCheck(t) /\ Observe(t)
  \/ HeadRUnlock(t) /\ Observe(t)
  \/ SizeRead(t) /\ Observe(t)
  \/ SizeRUnlock(t) /\ Observe(t)
  \/ EmptyRead(t) /\ Observe(t)
  \/ EmptyRUnlock(t) /\ Observe(t)

NextLive ==
  \E t \in Threads :
    \/ \E o \in SpecOrderIds : elemsCount < LiveMaxSize /\ CallPush(t, o) /\ Observe(t)
    \/ CallPop(t) /\ Observe(t)
    \/ CallHead(t) /\ Observe(t)
    \/ CallSize(t) /\ Observe(t)
    \/ CallEmpty(t) /\ Observe(t)
    \/ Step(t)

\* Every step moves its thread's pc or, inside a sift, its k.
SpecLive == Init /\ [][NextLive]_vars /\ \A t \in Threads : WF_<<pc, k>>(Step(t))

\* ------------------------------------------- concurrent pushes, then a drain
\* SpecConc: M threads have each called Push with an order of their own and
\* run in any interleaving; when all have returned, thread 1 calls Pop M times.
ConcThreads == 1..MaxPushers

SortedSeq(S) ==
  CHOOSE f \in [1..Cardinality(S) -> S] : \A i, j \in 1..Cardinality(S) : i < j => f[i] < f[j]

InitConc ==
  /\ side \in {"Bid", "Ask"}
  /\ InitQueue
  /\ \E S \in SUBSET OrderIds :
       /\ Cardinality(S) >= 1
       /\ Cardinality(S) <= MaxPushers
       /\ pc = [t \in ConcThreads |-> IF t <= Cardinality(S) THEN "PushCall" ELSE "idle"]
       /\ item = [t \in ConcThreads |-> IF t <= Cardinality(S)
                                         THEN newBidItem(Orders[SortedSeq(S)[t]])
                                         ELSE NilItem]
  /\ InitLocals(ConcThreads)
  /\ cmpIn = <<0, 0, 0, 0>>
  /\ cmpOut = <<>>

\* Push entering Lock, its item already built.
PushCall(t) ==
  /\ pc[t] = "PushCall"
  /\ LockBegin(t)
  /\ Goto(t, "PushLock")
  /\ UNCHANGED <<side, pqType, comparator, items, elemsCount, readers, item, k, max, ret>>

\* The drain: one Pop call after the other, once every Push has returned.
DrainPop(t) ==
  /\ t = 1
  /\ \A u \in ConcThreads : pc[u] = "idle"
  /\ Len(popped) < Len(pushed)
  /\ CallPop(t)

ObserveConc(t) ==
  /\ pushed' = IF pc[t] = "PushUnlock" THEN Append(pushed, item[t]) ELSE pushed
  /\ popped' = IF pc[t] = "PopUnlock"
                THEN Append(popped, [value |-> ret[t].value, price |-> max[t].price,
                                     quantity |-> max[t].quantity])
                ELSE popped
  /\ UNCHANGED <<snap, peeked, drain, pushes, live, lastDone, cmpIn, cmpOut, repl>>

NextConc ==
  \E t \in ConcThreads :
    \/ PushCall(t) /\ ObserveConc(t)
    \/ PushLock(t) /\ ObserveConc(t)
    \/ PushAppend(t) /\ ObserveConc(t)
    \/ PushIncr(t) /\ ObserveConc(t)
    \/ PushSwim(t) /\ ObserveConc(t)
    \/ PushUnlock(t) /\ ObserveConc(t)
    \/ DrainPop(t) /\ ObserveConc(t)
    \/ PopLock(t) /\ ObserveConc(t)
    \/ PopCheck(t) /\ ObserveConc(t)
    \/ PopExch(t) /\ ObserveConc(t)
    \/ PopTrunc(t) /\ ObserveConc(t)
    \/ PopDecr(t) /\ ObserveConc(t)
    \/ PopSink(t) /\ ObserveConc(t)
    \/ PopUnlock(t) /\ ObserveConc(t)

SpecConc == InitConc /\ [][NextConc]_vars

\* ------------------------------------------------------ the comparators alone
\* SpecCmp: a queue of either type built by either constructor, and one call
\* of its comparator on sampled uint32 arguments.
InitCmp ==
  /\ side \in {"Bid", "Ask"}
  /\ InitQueue
  /\ pc = <<>>
  /\ item = <<>>
  /\ InitLocals({})
  /\ cmpIn \in U32Samples \X U32Samples \X U32Samples \X U32Samples
  /\ cmpOut = <<>>

ApplyComparator ==
  /\ cmpOut = <<>>
  /\ cmpOut' = <<Compare(comparator, cmpIn[1], cmpIn[2], cmpIn[3], cmpIn[4])>>
  /\ UNCHANGED <<core, hist, cmpIn, repl>>

NextCmp == ApplyComparator

SpecCmp == InitCmp /\ [][NextCmp]_vars

\* ================================================================ the console
\* SpecRepl: NHandlers goroutines call Handle for NSids session ids with any
\* of the texts below, the connections' done channels close at any time, and
\* the command and cleanup goroutines Handle starts run in any interleaving.
\* The models calls return or fail; none panics.
Sids == 1..NSids
Handlers == 1..NHandlers
Sessions == 1..MaxSessions

\* The texts a caller passes as cmd: the four command names and six input
\* lines.
Lines == {"sendnotif", "add_stocks_to_exchange", "update_stock_price", "add_market_event",
          "0 \"hi\"", "7 \"hi\"", "7 5", "\"brief\"", "Y", "N"}

\* The texts the callers of SpecRepl pass: one command name, a line it scans
\* with id 0 and one with another id, and the answer Y. Each is also an
\* unknown command name, a line that does not scan, or another answer,
\* depending on where the session is.
ReplLines == {"sendnotif", "0 \"hi\"", "7 \"hi\"", "Y"}

NoOne == <<"none", 0>>
Panicked == "REPL Panicked! Ignoring this to save the server from death."
InvalidCommand == "Invalid command"
InvalidInput == "Error: 'Invalid input'"

\* fmt.Sscanf(line, format, args...): whether it fails, whether the first
\* number scanned is 0, and the character %c scans.
Sscanf(line, format) ==
  [err  |-> CASE format = "%d %q" -> line \notin {"0 \"hi\"", "7 \"hi\""}
              [] format = "%d %d" -> line # "7 5"
              [] format = "%q"    -> line # "\"brief\""
              [] format = "%c"    -> line = "",
   zero |-> line = "0 \"hi\"",
   c    |-> CASE line = "" -> "N"
              [] line = "sendnotif" -> "s"
              [] line \in {"add_stocks_to_exchange", "add_market_event"} -> "a"
              [] line = "update_stock_price" -> "u"
              [] line = "0 \"hi\"" -> "0"
              [] line \in {"7 \"hi\"", "7 5"} -> "7"
              [] line = "\"brief\"" -> "\""
              [] OTHER -> line]

\* The statements of a command, in order. print: s.print(msg). read:
\* s.read(format). lookup: the models lookup, skipped when the id read is 0
\* and `all` is set; msg is what s.error prints when it fails. action: the
\* test of the answer and the privileged call; yes and no are what s.finish
\* prints.
Stmt(op, arg, all, yes, no) == [op |-> op, arg |-> arg, all |-> all, yes |-> yes, no |-> no]

sendnotif ==
  << Stmt("print", "Enter userId and notification text:", FALSE, "", ""),
     Stmt("read", "%d %q", FALSE, "", ""),
     Stmt("lookup", "Error: 'No user with id %d'", TRUE, "", ""),
     Stmt("print", "Are you sure you want to send? [Y/N]", FALSE, "", ""),
     Stmt("read", "%c", FALSE, "", ""),
     Stmt("action", "SendNotification", FALSE, "Sent", "Not sending") >>

add_stocks_to_exchange ==
  << Stmt("print", "Enter stock id and number of new stocks:", FALSE, "", ""),
     Stmt("read", "%d %d", FALSE, "", ""),
     Stmt("lookup", "Error: 'err'", FALSE, "", ""),
     Stmt("print", "Are you sure you want to add? [Y/N]", FALSE, "", ""),
     Stmt("read", "%c", FALSE, "", ""),
     Stmt("action", "AddStocksToExchange", FALSE, "Done", "Not doing") >>

update_stock_price ==
  << Stmt("print", "Enter stockId and new price:", FALSE, "", ""),
     Stmt("read", "%d %d", FALSE, "", ""),
     Stmt("lookup", "Error: 'err'", FALSE, "", ""),
     Stmt("print", "Are you sure you want to update? [Y/N]", FALSE, "", ""),
     Stmt("read", "%c", FALSE, "", ""),
     Stmt("action", "UpdateStockPrice", FALSE, "Done", "Not doing") >>

add_market_event ==
  << Stmt("print", "Enter stockId and headline:", FALSE, "", ""),
     Stmt("read", "%d %q", FALSE, "", ""),
     Stmt("print", "Enter brief text:", FALSE, "", ""),
     Stmt("read", "%q", FALSE, "", ""),
     Stmt("lookup", "Error: 'err'", TRUE, "", ""),
     Stmt("print", "Are you sure you want to send? [Y/N]", FALSE, "", ""),
     Stmt("read", "%c", FALSE, "", ""),
     Stmt("action", "AddMarketEvent", FALSE, "Done", "Not doing") >>

replCmds ==
  [name \in {"sendnotif", "add_stocks_to_exchange", "update_stock_price", "add_market_event"} |->
     CASE name = "sendnotif" -> sendnotif
       [] name = "add_stocks_to_exchange" -> add_stocks_to_exchange
       [] name = "update_stock_price" -> update_stock_price
       [] name = "add_market_event" -> add_market_event]

\* What a call into the models package may do: return, return an error, or
\* panic; and the first two alone, what its signature promises.
ModelsOutcomes == {"ok", "err", "panic"}
ModelsReturns == {"ok", "err"}

IdleHandle == [pc |-> "idle", sid |-> 0, cmd |-> "", session |-> 0, ret |-> ""]
NoCommand == [st |-> "none", sid |-> 0, cmd |-> "", ip |-> 0, zero |-> FALSE, c |-> "N",
              msg |-> "", acted |-> 0]
NoCleanup == [st |-> "none", sid |-> 0]
NoTrail == [found |-> "", cmd |-> "", before |-> <<>>, unused |-> {}]
NoConfirm == [asked |-> FALSE, answer |-> "none", scanned |-> FALSE]

InitRepl ==
  /\ cmdSessions = [s \in Sids |-> 0]
  /\ cmdSessionsMutex = NoOne
  /\ done = [s \in Sids |-> FALSE]
  /\ inClosed = [c \in Sessions |-> FALSE]
  /\ out = [c \in Sessions |-> <<>>]
  /\ handle = [h \in Handlers |-> IdleHandle]
  /\ command = [c \in Sessions |-> NoCommand]
  /\ cleanup = [c \in Sessions |-> NoCleanup]
  /\ crashed = FALSE
  /\ orphaned = {}
  /\ trail = [h \in Handlers |-> NoTrail]
  /\ confirm = [c \in Sessions |-> NoConfirm]
  \* the order queues are not part of SpecRepl
  /\ side = "Bid"
  /\ pqType = MAXPQ
  /\ InitQueue
  /\ pc = <<>>
  /\ item = <<>>
  /\ k = <<>>
  /\ max = <<>>
  /\ ret = <<>>
  /\ snap = <<>>
  /\ peeked = NoPeek
  /\ drain = NoDrain
  /\ pushes = 0
  /\ pushed = <<>>
  /\ popped = <<>>
  /\ live = <<>>
  /\ lastDone = "none"
  /\ cmpIn = <<0, 0, 0, 0>>
  /\ cmpOut = <<>>

\* The statement the command of session c is at.
StmtAt(c) == replCmds[command[c].cmd][command[c].ip]
\* The sessions not yet created.
Unused == {c \in Sessions : command[c].st = "none"}
\* A command that panicked: its locals are gone, the deferred function has
\* sid and the session.
Unwinding(cmd) == [NoCommand EXCEPT !.st = "panic", !.sid = cmd.sid, !.acted = cmd.acted]
\* The goroutines' names as holders of the mutex.
H(h) == <<"Handle", h>>
C(c) == <<"command", c>>
D(c) == <<"cleanup", c>>

\* ------------------------------------------------------------------- Handle
\* Handle(done, sid, cmd): the recover is deferred and the call enters Lock.
CallHandle(h, s, l) ==
  /\ ~crashed
  /\ handle[h].pc = "idle"
  /\ ~done[s]
  /\ handle' = [handle EXCEPT ![h] = [pc |-> "Lock", sid |-> s, cmd |-> l, session |-> 0, ret |-> ""]]
  /\ UNCHANGED <<cmdSessions, cmdSessionsMutex, done, inClosed, out, command, cleanup, crashed>>

\* cmdSessionsMutex.Lock() returns; the Unlock is deferred.
HandleLock(h) ==
  /\ ~crashed
  /\ handle[h].pc = "Lock"
  /\ cmdSessionsMutex = NoOne
  /\ cmdSessionsMutex' = H(h)
  /\ handle' = [handle EXCEPT ![h].pc = "Lookup"]
  /\ UNCHANGED <<cmdSessions, done, inClosed, out, command, cleanup, crashed>>

\* Seeded fault: the session is registered before the command name is tested.
HandleLookup_registersFirst(h) ==
  /\ ~crashed
  /\ handle[h].pc = "Lookup"
  /\ LET s == handle[h].sid
         l == handle[h].cmd
     IN IF cmdSessions[s] = 0
        THEN IF l \notin DOMAIN replCmds
             THEN /\ Unused # {}
                  /\ handle' = [handle EXCEPT ![h].ret = InvalidCommand, ![h].pc = "Unlock"]
                  /\ cmdSessions' = [cmdSessions EXCEPT ![s] = CHOOSE u \in Unused : TRUE]
                  /\ UNCHANGED <<command, cleanup>>
             ELSE /\ Unused # {}
                  /\ LET c == CHOOSE u \in Unused : \A v \in Unused : u <= v
                     IN /\ cmdSessions' = [cmdSessions EXCEPT ![s] = c]
                        /\ command' = [command EXCEPT ![c] =
                             [NoCommand EXCEPT !.st = "run", !.sid = s, !.cmd = l, !.ip = 1]]
                        /\ cleanup' = [cleanup EXCEPT ![c] = [st |-> "done", sid |-> s]]
                        /\ handle' = [handle EXCEPT ![h].session = c, ![h].cmd = "", ![h].pc = "RecvOut"]
        ELSE /\ handle' = [handle EXCEPT ![h].session = cmdSessions[s], ![h].pc = "Select"]
             /\ UNCHANGED <<cmdSessions, command, cleanup>>
  /\ UNCHANGED <<cmdSessionsMutex, done, inClosed, out, crashed>>

\* `if session, ok := cmdSessions[sid]; !ok { ... }`: with no entry, an
\* unknown command name is refused; a known one gets a session with fresh
\* channels, registered under sid, and the two goroutines. With an entry,
\* `sess := cmdSessions[sid]`.
HandleLookup(h) ==
  /\ ~crashed
  /\ handle[h].pc = "Lookup"
  /\ LET s == handle[h].sid
         l == handle[h].cmd
     IN IF cmdSessions[s] = 0
        THEN IF l \notin DOMAIN replCmds
             THEN /\ handle' = [handle EXCEPT ![h].ret = InvalidCommand, ![h].pc = "Unlock"]
                  /\ UNCHANGED <<cmdSessions, command, cleanup>>
             ELSE /\ Unused # {}
                  /\ LET c == CHOOSE u \in Unused : \A v \in Unused : u <= v
                     IN /\ cmdSessions' = [cmdSessions EXCEPT ![s] = c]
                        /\ command' = [command EXCEPT ![c] =
                             [NoCommand EXCEPT !.st = "run", !.sid = s, !.cmd = l, !.ip = 1]]
                        /\ cleanup' = [cleanup EXCEPT ![c] = [st |-> "done", sid |-> s]]
                        /\ handle' = [handle EXCEPT ![h].session = c, ![h].cmd = "", ![h].pc = "RecvOut"]
        ELSE /\ handle' = [handle EXCEPT ![h].session = cmdSessions[s], ![h].pc = "Select"]
             /\ UNCHANGED <<cmdSessions, command, cleanup>>
  /\ UNCHANGED <<cmdSessionsMutex, done, inClosed, out, crashed>>

\* `select { case <-done: return ""; default: ... }`
HandleSelect(h) ==
  /\ ~crashed
  /\ handle[h].pc = "Select"
  /\ handle' = [handle EXCEPT ![h].pc = IF done[handle[h].sid] THEN "Unlock" ELSE "SendIn"]
  /\ UNCHANGED <<cmdSessions, cmdSessionsMutex, done, inClosed, out, command, cleanup, crashed>>

\* `sess.in <- cmd`: a send on a closed channel panics, the deferred Unlock
\* and recover run and Handle returns the apology. Otherwise the send waits
\* for the command to be in s.read, which takes the line and scans it; a line
\* that does not scan is s.error("Invalid input").
HandleSend(h) ==
  /\ ~crashed
  /\ handle[h].pc = "SendIn"
  /\ LET c == handle[h].session
     IN IF inClosed[c]
        THEN /\ handle' = [handle EXCEPT ![h].ret = Panicked, ![h].pc = "Unlock"]
             /\ UNCHANGED command
        ELSE /\ command[c].st = "run"
             /\ StmtAt(c).op = "read"
             /\ LET r == Sscanf(handle[h].cmd, StmtAt(c).arg)
                IN command' = [command EXCEPT ![c] =
                     IF r.err
                     THEN [@ EXCEPT !.st = "error", !.msg = InvalidInput]
                     ELSE [@ EXCEPT !.ip = @ + 1,
                                    !.zero = IF StmtAt(c).arg = "%d %q" THEN r.zero ELSE @,
                                    !.c = IF StmtAt(c).arg = "%c" THEN r.c ELSE @]]
             /\ handle' = [handle EXCEPT ![h].cmd = "", ![h].pc = "RecvOut"]
  /\ UNCHANGED <<cmdSessions, cmdSessionsMutex, done, inClosed, out, cleanup, crashed>>

\* `return <-session.out`
HandleRecv(h) ==
  /\ ~crashed
  /\ handle[h].pc = "RecvOut"
  /\ out[handle[h].session] # <<>>
  /\ handle' = [handle EXCEPT ![h].ret = Head(out[handle[h].session]), ![h].pc = "Unlock"]
  /\ out' = [out EXCEPT ![handle[h].session] = Tail(@)]
  /\ UNCHANGED <<cmdSessions, cmdSessionsMutex, done, inClosed, command, cleanup, crashed>>

\* the deferred Unlock; the caller then has handle[h].ret
HandleUnlock(h) ==
  /\ ~crashed
  /\ handle[h].pc = "Unlock"
  /\ cmdSessionsMutex' = NoOne
  /\ handle' = [handle EXCEPT ![h] = IdleHandle]
  /\ UNCHANGED <<cmdSessions, done, inClosed, out, command, cleanup, crashed>>

\* -------------------------------------------------------------- the command
\* s.print(msg): `s.out <- msg` waits for room in the buffer.
CmdPrint(c) ==
  /\ ~crashed
  /\ command[c].st = "run"
  /\ StmtAt(c).op = "print"
  /\ Len(out[c]) < 1
  /\ out' = [out EXCEPT ![c] = Append(@, StmtAt(c).arg)]
  /\ command' = [command EXCEPT ![c].ip = @ + 1]
  /\ UNCHANGED <<cmdSessions, cmdSessionsMutex, done, inClosed, handle, cleanup, crashed>>

\* s.read(format) on a closed `in`: the receive yields "", which does not scan.
CmdReadClosed(c) ==
  /\ ~crashed
  /\ command[c].st = "run"
  /\ StmtAt(c).op = "read"
  /\ inClosed[c]
  /\ command' = [command EXCEPT ![c] =
       IF Sscanf("", StmtAt(c).arg).err
       THEN [@ EXCEPT !.st = "error", !.msg = InvalidInput]
       ELSE [@ EXCEPT !.ip = @ + 1]]
  /\ UNCHANGED <<cmdSessions, cmdSessionsMutex, done, inClosed, out, handle, cleanup, crashed>>

\* models.GetUserCopy / models.GetStockCopy, not called for id 0 where the
\* command tests for it; an error is s.error(...).
CmdLookup(c, r) ==
  /\ ~crashed
  /\ command[c].st = "run"
  /\ StmtAt(c).op = "lookup"
  /\ command' = [command EXCEPT ![c] =
       IF (StmtAt(c).all /\ command[c].zero) \/ r = "ok" THEN [@ EXCEPT !.ip = @ + 1]
       ELSE IF r = "err" THEN [@ EXCEPT !.st = "error", !.msg = StmtAt(c).arg]
       ELSE Unwinding(@)]
  /\ UNCHANGED <<cmdSessions, cmdSessionsMutex, done, inClosed, out, handle, cleanup, crashed>>

\* Seeded fault: the command does not test the answer.
CmdAction_noTest(c, r) ==
  /\ ~crashed
  /\ command[c].st = "run"
  /\ StmtAt(c).op = "action"
  /\ command' = [command EXCEPT ![c] =
       IF r = "ok" THEN [@ EXCEPT !.st = "finish", !.msg = StmtAt(c).yes, !.acted = @ + 1]
       ELSE IF r = "err" THEN [@ EXCEPT !.st = "error", !.msg = "Error: 'err'", !.acted = @ + 1]
       ELSE Unwinding([@ EXCEPT !.acted = @ + 1])]
  /\ UNCHANGED <<cmdSessions, cmdSessionsMutex, done, inClosed, out, handle, cleanup, crashed>>

\* `if c == 'Y' { err := models.X(...); if err != nil { s.error(err) };
\* s.finish(yes) }; s.finish(no)`, up to finish's print.
CmdAction(c, r) ==
  /\ ~crashed
  /\ command[c].st = "run"
  /\ StmtAt(c).op = "action"
  /\ command' = [command EXCEPT ![c] =
       IF command[c].c # "Y" THEN [@ EXCEPT !.st = "finish", !.msg = StmtAt(c).no]
       ELSE IF r = "ok" THEN [@ EXCEPT !.st = "finish", !.msg = StmtAt(c).yes, !.acted = @ + 1]
       ELSE IF r = "err" THEN [@ EXCEPT !.st = "error", !.msg = "Error: 'err'", !.acted = @ + 1]
       ELSE Unwinding([@ EXCEPT !.acted = @ + 1])]
  /\ UNCHANGED <<cmdSessions, cmdSessionsMutex, done, inClosed, out, handle, cleanup, crashed>>

\* s.error and s.finish: s.print(msg), then panic(1) or panic(0).
CmdPrintPanic(c) ==
  /\ ~crashed
  /\ command[c].st \in {"error", "finish"}
  /\ Len(out[c]) < 1
  /\ out' = [out EXCEPT ![c] = Append(@, command[c].msg)]
  /\ command' = [command EXCEPT ![c] = Unwinding(@)]
  /\ UNCHANGED <<cmdSessions, cmdSessionsMutex, done, inClosed, handle, cleanup, crashed>>

\* The deferred function: recover(), then cmdSessionsMutex.Lock() returns.
CmdRecover(c) ==
  /\ ~crashed
  /\ command[c].st = "panic"
  /\ cmdSessionsMutex = NoOne
  /\ cmdSessionsMutex' = C(c)
  /\ command' = [command EXCEPT ![c].st = "delete"]
  /\ UNCHANGED <<cmdSessions, done, inClosed, out, handle, cleanup, crashed>>

\* `delete(cmdSessions, sid); cmdSessionsMutex.Unlock()`; the goroutine ends.
CmdDelete(c) ==
  /\ ~crashed
  /\ command[c].st = "delete"
  /\ cmdSessions' = [cmdSessions EXCEPT ![command[c].sid] = 0]
  /\ cmdSessionsMutex' = NoOne
  /\ command' = [command EXCEPT ![c] = [NoCommand EXCEPT !.st = "exit"]]
  /\ UNCHANGED <<done, inClosed, out, handle, cleanup, crashed>>

\* ------------------------------------------------------------- the cleanup
\* The connection closes its done channel.
CloseDone(s) ==
  /\ ~crashed
  /\ ~done[s]
  /\ done' = [done EXCEPT ![s] = TRUE]
  /\ UNCHANGED <<cmdSessions, cmdSessionsMutex, inClosed, out, handle, command, cleanup, crashed>>

\* `<-done` returns and cmdSessionsMutex.Lock() returns.
CleanupLock(c) ==
  /\ ~crashed
  /\ cleanup[c].st = "done"
  /\ done[cleanup[c].sid]
  /\ cmdSessionsMutex = NoOne
  /\ cmdSessionsMutex' = D(c)
  /\ cleanup' = [cleanup EXCEPT ![c].st = "close"]
  /\ UNCHANGED <<cmdSessions, done, inClosed, out, handle, command, crashed>>

\* `close(cmdSessions[sid].in)`: with no entry under sid the channel is nil;
\* closing a nil channel or a closed channel panics, and nothing recovers a
\* panic of this goroutine.
CleanupClose(c) ==
  /\ ~crashed
  /\ cleanup[c].st = "close"
  /\ LET cur == cmdSessions[cleanup[c].sid]
     IN IF cur = 0 \/ inClosed[cur]
        THEN /\ crashed' = TRUE
             /\ UNCHANGED <<inClosed, cleanup>>
        ELSE /\ inClosed' = [inClosed EXCEPT ![cur] = TRUE]
             /\ cleanup' = [cleanup EXCEPT ![c].st = "unlock"]
             /\ UNCHANGED crashed
  /\ UNCHANGED <<cmdSessions, cmdSessionsMutex, done, out, handle, command>>

\* `cmdSessionsMutex.Unlock()`; the goroutine ends.
CleanupUnlock(c) ==
  /\ ~crashed
  /\ cleanup[c].st = "unlock"
  /\ cmdSessionsMutex' = NoOne
  /\ cleanup' = [cleanup EXCEPT ![c].st = "exit"]
  /\ UNCHANGED <<cmdSessions, done, inClosed, out, handle, command, crashed>>

\* The queues are not part of the console's specifications.
QueueUnused == UNCHANGED <<core, hist, cmpIn, cmpOut>>

\* A call that may create a session is started only while a session is left
\* to create for it.
Creators == {h \in Handlers : handle[h].pc \in {"Lock", "Lookup"} /\ handle[h].cmd \in DOMAIN replCmds}
MayCall(l) == l \in DOMAIN replCmds => Cardinality(Creators) < Cardinality(Unused)

\* The command of session c is in s.read, waiting for a line.
InRead(c) == command[c].st = "run" /\ StmtAt(c).op = "read"

\* History of SpecRepl. orphaned: the registered sessions that were in s.read
\* when their done channel closed, until they end. trail: at Handle's test of
\* cmdSessions[sid], what the call found ("none": no entry, "entry": one),
\* its cmd, and the map and the unused sessions as they were.
ObserveRepl ==
  /\ orphaned' =
       {c \in orphaned : command'[c].st # "exit"}
         \cup {c \in Sessions : /\ InRead(c)
                                 /\ cmdSessions[command[c].sid] = c
                                 /\ done'[command[c].sid] /\ ~done[command[c].sid]}
  /\ trail' = [h \in Handlers |->
       IF handle'[h].pc = "idle" THEN NoTrail
       ELSE IF handle[h].pc = "Lookup"
       THEN [found |-> IF cmdSessions[handle[h].sid] = 0 THEN "none" ELSE "entry",
             cmd |-> handle[h].cmd, before |-> cmdSessions, unused |-> Unused]
       ELSE trail[h]]
  /\ UNCHANGED confirm
  /\ QueueUnused

NextRepl ==
  \/ \E h \in Handlers : \E s \in Sids : \E l \in ReplLines :
       MayCall(l) /\ CallHandle(h, s, l) /\ ObserveRepl
  \/ \E h \in Handlers : HandleLock(h) /\ ObserveRepl
  \/ \E h \in Handlers : HandleLookup(h) /\ ObserveRepl
  \/ \E h \in Handlers : HandleSelect(h) /\ ObserveRepl
  \/ \E h \in Handlers : HandleSend(h) /\ ObserveRepl
  \/ \E h \in Handlers : HandleRecv(h) /\ ObserveRepl
  \/ \E h \in Handlers : HandleUnlock(h) /\ ObserveRepl
  \/ \E c \in Sessions : CmdPrint(c) /\ ObserveRepl
  \/ \E c \in Sessions : CmdReadClosed(c) /\ ObserveRepl
  \/ \E c \in Sessions : \E r \in ModelsReturns : CmdLookup(c, r) /\ ObserveRepl
  \/ \E c \in Sessions : \E r \in ModelsReturns : CmdAction(c, r) /\ ObserveRepl
  \/ \E c \in Sessions : CmdPrintPanic(c) /\ ObserveRepl
  \/ \E c \in Sessions : CmdRecover(c) /\ ObserveRepl
  \/ \E c \in Sessions : CmdDelete(c) /\ ObserveRepl
  \/ \E s \in Sids : CloseDone(s) /\ ObserveRepl
  \/ \E c \in Sessions : CleanupLock(c) /\ ObserveRepl
  \/ \E c \in Sessions : CleanupClose(c) /\ ObserveRepl
  \/ \E c \in Sessions : CleanupUnlock(c) /\ ObserveRepl

SpecRepl == InitRepl /\ [][NextRepl]_vars

\* ------------------------------------------------------ one operator's session
\* SpecCmds: one caller runs commands on one sid, one Handle call after the
\* other, with any of the four commands and any of the lines; the models
\* calls return, fail or panic; done closes at any time.
ConfirmPrompts ==
  {"Are you sure you want to send? [Y/N]", "Are you sure you want to add? [Y/N]",
   "Are you sure you want to update? [Y/N]"}

\* History of SpecCmds, per session until its goroutine ends: whether a
\* confirmation prompt was sent, and the line s.read("%c") received ("" at
\* the end of input).
ObserveCmds ==
  /\ confirm' = [c \in Sessions |->
       IF command'[c].st = "exit" THEN NoConfirm
       ELSE IF Len(out'[c]) > Len(out[c]) /\ out'[c][Len(out'[c])] \in ConfirmPrompts
       THEN [confirm[c] EXCEPT !.asked = TRUE]
       ELSE IF InRead(c) /\ StmtAt(c).arg = "%c" /\ command'[c] # command[c]
       THEN [confirm[c] EXCEPT !.scanned = TRUE,
                               !.answer = IF inClosed[c] THEN "" ELSE handle[1].cmd]
       ELSE confirm[c]]
  /\ UNCHANGED <<orphaned, trail>>
  /\ QueueUnused

NextCmds ==
  \/ \E l \in Lines : MayCall(l) /\ CallHandle(1, 1, l) /\ ObserveCmds
  \/ HandleLock(1) /\ ObserveCmds
  \/ HandleLookup(1) /\ ObserveCmds
  \/ HandleSelect(1) /\ ObserveCmds
  \/ HandleSend(1) /\ ObserveCmds
  \/ HandleRecv(1) /\ ObserveCmds
  \/ HandleUnlock(1) /\ ObserveCmds
  \/ \E c \in Sessions : CmdPrint(c) /\ ObserveCmds
  \/ \E c \in Sessions : CmdReadClosed(c) /\ ObserveCmds
  \/ \E c \in Sessions : \E r \in ModelsOutcomes : CmdLookup(c, r) /\ ObserveCmds
  \/ \E c \in Sessions : \E r \in ModelsOutcomes : CmdAction(c, r) /\ ObserveCmds
  \/ \E c \in Sessions : CmdPrintPanic(c) /\ ObserveCmds
  \/ \E c \in Sessions : CmdRecover(c) /\ ObserveCmds
  \/ \E c \in Sessions : CmdDelete(c) /\ ObserveCmds
  \/ CloseDone(1) /\ ObserveCmds
  \/ \E c \in Sessions : CleanupLock(c) /\ ObserveCmds
  \/ \E c \in Sessions : CleanupClose(c) /\ ObserveCmds
  \/ \E c \in Sessions : CleanupUnlock(c) /\ ObserveCmds

SpecCmds == InitRepl /\ [][NextCmds]_vars

\* ------------------------------------------------------------------- claims
\* x dominates y, in the words of the ordering policies: the higher price for
\* MAXPQ, the lower price for MINPQ, the larger quantity on equal price.
Dominates(type, x, y) ==
  IF type = MAXPQ
  THEN x.price > y.price \/ (x.price = y.price /\ x.quantity > y.quantity)
  ELSE x.price < y.price \/ (x.price = y.price /\ x.quantity > y.quantity)

\* t is between the return of Lock and the end of its sift.
Mutating(t) ==
  pc[t] \in {"PushAppend", "PushIncr", "PushSwim", "PopExch", "PopTrunc", "PopDecr", "PopSink"}
\* t holds the lock exclusively.
Writing(t) == Mutating(t) \/ pc[t] \in {"PopCheck", "PushUnlock", "PopUnlock"}
\* t is inside Push or Pop, waiting for the lock included.
InPushPop(t) == Writing(t) \/ pc[t] \in {"PushCall", "PushLock", "PopLock"}
\* t holds the lock in shared mode.
Reading(t) ==
  pc[t] \in {"HeadCheck", "HeadRUnlock", "SizeRead", "SizeRUnlock", "EmptyRead", "EmptyRUnlock"}
Live(its) == 1..(Len(its) - 1)

\* C1: a Pop on a non-empty queue returns the payload of an entry that was in
\* the queue when Pop's Lock returned and that no entry then in the queue
\* dominates.
C1_PopReturnsUndominated ==
  \A t \in DOMAIN pc :
    (pc[t] = "PopUnlock" /\ Len(snap[t]) > 1) =>
      \E i \in Live(snap[t]) :
        /\ At(snap[t], i).value = ret[t].value
        /\ \A j \in Live(snap[t]) : ~Dominates(pqType, At(snap[t], j), At(snap[t], i))

\* A Pop is about to return from a queue that held four entries, two of them
\* differing in dominance.
C1_Witness ==
  \E t \in DOMAIN pc :
    /\ pc[t] = "PopUnlock"
    /\ Len(snap[t]) = 5
    /\ \E i, j \in Live(snap[t]) : Dominates(pqType, At(snap[t], i), At(snap[t], j))
    /\ ret[t].value # Nil

\* C2: whenever no Push or Pop is between its Lock and the end of its sift,
\* no slot k in 2..size is judged by less to dominate its parent k/2.
C2_HeapInvariant ==
  (\A t \in DOMAIN pc : ~Mutating(t)) =>
    \A kk \in 2..size(elemsCount) : ~less(comparator, items, kk \div 2, kk)

\* A Pop has just finished its sink on a queue that keeps three entries.
C2_Witness ==
  \E t \in DOMAIN pc : pc[t] = "PopUnlock" /\ ret[t].value # Nil /\ elemsCount = 3

\* No entry of the queue dominates its root, and the count is the number of slots in use.
Settled ==
  /\ elemsCount = Len(items) - 1
  /\ \A j \in Live(items) : ~Dominates(pqType, At(items, j), At(items, 1))

\* C6: at most one thread is past Lock; while one is, no Head, Size or Empty
\* is past RLock; whatever a Head, Size or Empty sees is a settled queue; and
\* while no Push or Pop holds or awaits the lock, a thread can enter Head,
\* Size and Empty whatever the number of readers already in.
C6_LockDiscipline ==
  /\ Cardinality({t \in DOMAIN pc : Writing(t)}) <= 1
  /\ \A t \in DOMAIN pc : Writing(t) => w = t
  /\ (\E t \in DOMAIN pc : Writing(t)) => (\A u \in DOMAIN pc : ~Reading(u))
  /\ (\E u \in DOMAIN pc : Reading(u)) => Settled
  /\ \A u \in DOMAIN pc :
       (pc[u] = "idle" /\ \A t \in DOMAIN pc : ~InPushPop(t)) =>
          (ENABLED CallHead(u)) /\ (ENABLED CallSize(u)) /\ (ENABLED CallEmpty(u))

\* Two readers are in at once, on a queue of two entries or more.
C6_Witness ==
  /\ \E t, u \in DOMAIN pc : t # u /\ Reading(t) /\ Reading(u)
  /\ elemsCount >= 2

Values(log) == [i \in 1..Len(log) |-> log[i].value]
Count(log, v) == Cardinality({i \in 1..Len(log) : log[i].value = v})

\* C3 as stated: on a MINPQ queue, after the pushes of (A,10,5), (B,20,1),
\* (C,20,9), (D,15,3) in that order, the Pops return A, D, B, C in that order.
C3_MinPopOrder_AsStated ==
  (pqType = MINPQ /\ Values(pushed) = <<"A", "B", "C", "D">>) =>
     Values(popped) = SubSeq(<<"A", "D", "B", "C">>, 1, Len(popped))

\* C3, amended: on a MINPQ queue, after the pushes of (A,10,5), (B,20,1),
\* (C,20,9), (D,15,3) in that order, the Pops return A, D, C, B in that
\* order: of the two entries at price 20 the one of quantity 9 comes first.
C3_MinPopOrder ==
  (pqType = MINPQ /\ Values(pushed) = <<"A", "B", "C", "D">>) =>
     Values(popped) = SubSeq(<<"A", "D", "C", "B">>, 1, Len(popped))

\* The four entries were pushed in that order into a MINPQ queue and popped.
C3_Witness ==
  /\ pqType = MINPQ
  /\ pushed = <<Orders[1], Orders[2], Orders[3], Orders[4]>>
  /\ Len(popped) = 4
  /\ elemsCount = 0

\* C4: on a MAXPQ queue, after the same four pushes, the Pops return C, B, D,
\* A in that order.
C4_MaxPopOrder ==
  (pqType = MAXPQ /\ Values(pushed) = <<"A", "B", "C", "D">>) =>
     Values(popped) = SubSeq(<<"C", "B", "D", "A">>, 1, Len(popped))

\* The four entries were pushed in that order into a MAXPQ queue and popped.
C4_Witness ==
  /\ pqType = MAXPQ
  /\ pushed = <<Orders[1], Orders[2], Orders[3], Orders[4]>>
  /\ Len(popped) = 4
  /\ elemsCount = 0

\* C5: after M concurrent pushes and M sequential Pops the popped payloads
\* are the pushed payloads, as multisets, and at every moment no popped entry
\* is dominated by one popped after it.
C5_ConcurrentPushes ==
  /\ (Len(pushed) > 0 /\ Len(popped) = Len(pushed)) =>
        \A i \in OrderIds : Count(popped, Orders[i].value) = Count(pushed, Orders[i].value)
  /\ \A i, j \in 1..Len(popped) : i < j => ~Dominates(pqType, popped[j], popped[i])

\* Four pushes that did not complete in the order of their threads, drained.
C5_Witness ==
  /\ Len(pushed) = 4
  /\ Len(popped) = 4
  /\ Values(pushed) = <<"D", "B", "A", "C">>

\* C7: once as many Pop calls have completed as the last Size call returned,
\* with no Push since, the queue is empty, an Empty call returns true, and a
\* further Pop or Head returns nil, panics nowhere and changes nothing.
C7_DrainToEmpty ==
  drain.left = 0 =>
    /\ elemsCount = 0
    /\ items = <<NilItem>>
    /\ \A t \in DOMAIN pc :
         /\ pc[t] # "panic"
         /\ pc[t] = "EmptyRUnlock" => ret[t].empty
         /\ pc[t] = "PopUnlock" => ret[t].value = Nil
         /\ pc[t] = "HeadRUnlock" => ret[t].value = Nil

\* Size returned 3, three Pops completed, and a further Pop is returning.
C7_Witness ==
  /\ drain = [of |-> 3, left |-> 0]
  /\ \E t \in DOMAIN pc : pc[t] = "PopUnlock"

\* C8: as long as no Pop was called, Size returns the number of Push calls
\* completed and Empty returns whether that number is 0.
C8_PushSize ==
  pushes >= 0 =>
    \A t \in DOMAIN pc :
      /\ pc[t] = "SizeRUnlock" => ret[t].size = pushes
      /\ pc[t] = "EmptyRUnlock" => ret[t].empty = (pushes = 0)

\* Size returns after three pushes while another thread's Empty returns.
C8_Witness ==
  /\ pushes = 3
  /\ \E t, u \in DOMAIN pc : pc[t] = "SizeRUnlock" /\ pc[u] = "EmptyRUnlock"

\* C9: every Head that returns with no Push or Pop since an earlier Head
\* returns what that Head returned, and finds the slots and the count that
\* Head found; the next Pop returns the same payload.
C9_IdempotentPeek ==
  peeked # NoPeek =>
    \A t \in DOMAIN pc :
      /\ pc[t] = "HeadRUnlock" =>
            ret[t].value = peeked.val /\ items = peeked.items /\ elemsCount = peeked.count
      /\ pc[t] = "PopUnlock" => ret[t].value = peeked.val

\* Two Heads or more returned an entry of a queue of two or more, and a Pop
\* that followed is returning.
C9_Witness ==
  /\ peeked.n = 2
  /\ peeked.val # Nil
  /\ peeked.count >= 2
  /\ \E t \in DOMAIN pc : pc[t] = "PopUnlock"

\* C10: the comparator of a MAXPQ queue answers whether B's price is higher,
\* or equal with B's quantity larger; that of a MINPQ queue whether B's price
\* is lower, or equal with B's quantity larger; for either constructor.
C10_ComparatorPolicies ==
  cmpOut # <<>> =>
    LET priceA == cmpIn[1]
        qtyA == cmpIn[2]
        priceB == cmpIn[3]
        qtyB == cmpIn[4]
    IN cmpOut[1] = IF pqType = MAXPQ
                   THEN priceB > priceA \/ (priceB = priceA /\ qtyB > qtyA)
                   ELSE priceB < priceA \/ (priceB = priceA /\ qtyB > qtyA)

\* A MINPQ ask queue decided a tie on price by the quantity.
C10_Witness ==
  /\ cmpOut = <<TRUE>>
  /\ side = "Ask"
  /\ pqType = MINPQ
  /\ cmpIn[1] = cmpIn[3]
  /\ cmpIn[1] = BigUint32


\* C20: whenever no Push or Pop is under way, elemsCount = len(items) - 1 and
\* elemsCount >= 0, slot 0 holds nil, and slots 1..elemsCount hold, as a
\* multiset, exactly the entries pushed and not yet popped; so a Pop that
\* found the queue empty has left the count at zero.
C20_Bookkeeping ==
  (\A t \in DOMAIN pc : ~Writing(t)) =>
    /\ elemsCount = Len(items) - 1
    /\ elemsCount >= 0
    /\ At(items, 0) = NilItem
    /\ \A e \in Entries : Cardinality({i \in Live(items) : At(items, i) = e}) = live[e]
    /\ lastDone = "PopEmpty" => elemsCount = 0

\* A Pop has returned an entry and left two behind, the pair that ties on
\* price and quantity.
C20_Witness ==
  /\ \A t \in DOMAIN pc : ~Writing(t)
  /\ lastDone = "Pop"
  /\ live[newBidItem(Orders[1])] = 1
  /\ live[newBidItem(Orders[5])] = 1
  /\ elemsCount = 2

\* C17: every Push, Pop, Head, Size and Empty call that has been entered
\* returns, whatever the queue holds, entries equal in price and quantity
\* included; no entry dominates itself, so no sift exchanges equal entries
\* for ever; and a thread that has returned holds the lock in no mode.
C17_CallsComplete ==
  /\ [](\A t \in Threads : pc[t] = "idle" => (w # t /\ t \notin readers))
  /\ [](\A i \in Live(items) : ~less(comparator, items, i, i))
  /\ \A t \in Threads : (pc[t] # "idle") ~> (pc[t] = "idle")

\* swim is about to compare a pushed entry with a parent equal to it in price
\* and in quantity.
C17_Witness ==
  \E t \in Threads :
    /\ pc[t] = "PushSwim"
    /\ k[t] = 2
    /\ At(items, 1) = newBidItem(Orders[1])
    /\ At(items, 2) = newBidItem(Orders[5])

\* C11: a session whose done channel closed while its command waited for
\* input ends and loses its entry in cmdSessions: it is never left, still
\* there, in a state in which nothing can happen any more.
C11_DoneEndsSession ==
  \A c \in orphaned : command[c].st = "exit" \/ ENABLED NextRepl

\* A reply to the Handle call waiting on the out channel of session c is in
\* the buffer or still to be printed.
ReplyComing(c) ==
  \/ out[c] # <<>>
  \/ command[c].st \in {"error", "finish"}
  \/ command[c].st = "run" /\ StmtAt(c).op # "read"

\* C12: no failure inside a command leaves the Handle call that waits for the
\* command's message without one: while Handle waits on session.out, a
\* message is in the buffer or the command is still to print one.
C12_FailureReplies ==
  \A h \in Handlers : handle[h].pc = "RecvOut" => ReplyComing(handle[h].session)

\* C13: in every session the privileged call is made at most once, and only
\* after a confirmation prompt was sent and the line read in answer to it was
\* Y; so a session that read another answer, no answer, or never got to the
\* prompt ends without the call.
C13_ConfirmedAction ==
  \A c \in Sessions :
    /\ command[c].acted <= 1
    /\ command[c].acted = 1 =>
         /\ confirm[c].asked
         /\ confirm[c].scanned
         /\ confirm[c].answer = "Y"

\* add_market_event has made its privileged call and is about to print Done.
C13_Witness ==
  \E c \in Sessions :
    /\ command[c].cmd = "add_market_event"
    /\ command[c].acted = 1
    /\ command[c].st = "finish"
    /\ command[c].msg = "Done"
    /\ confirm[c].answer = "Y"

\* C14: a Handle call that found a session under sid hands its text to the
\* command as its next input line and gets the command's next message: when
\* the call is about to send, the command is there to read the line, and
\* when it then waits for the answer, the answer is in the buffer or coming.
C14_LineAnswered ==
  \A h \in Handlers :
    /\ handle[h].pc = "SendIn" => command[handle[h].session].st = "run"
    /\ (handle[h].pc = "RecvOut" /\ trail[h].found = "entry") => ReplyComing(handle[h].session)

\* C15: a Handle call that found no session under sid, when it is about to
\* return: with an unknown command name it returns 'Invalid command', the map
\* is as it was and no session was made; with a known one it returns the
\* command's first prompt, and the map differs from what it was in exactly
\* the one new session, registered under sid.
C15_FirstCall ==
  \A h \in Handlers :
    (handle[h].pc = "Unlock" /\ trail[h].found = "none") =>
      IF trail[h].cmd \notin DOMAIN replCmds
      THEN /\ handle[h].ret = InvalidCommand
           /\ cmdSessions = trail[h].before
           /\ Unused = trail[h].unused
      ELSE /\ handle[h].ret = replCmds[trail[h].cmd][1].arg
           /\ handle[h].session \in trail[h].unused
           /\ Unused = trail[h].unused \ {handle[h].session}
           /\ cmdSessions = [trail[h].before EXCEPT ![handle[h].sid] = handle[h].session]

\* A call with a known command name is about to return the first prompt
\* while the other sid has a session of its own.
C15_Witness ==
  \E h \in Handlers :
    /\ handle[h].pc = "Unlock"
    /\ trail[h].found = "none"
    /\ trail[h].cmd = "sendnotif"
    /\ handle[h].ret = "Enter userId and notification text:"
    /\ \E s \in Sids : s # handle[h].sid /\ cmdSessions[s] # 0

\* The Handle call of h can never return: it waits to send to a command that
\* will not read, or for a message that will not come.
Blocked(h) ==
  \/ handle[h].pc = "SendIn" /\ ~inClosed[handle[h].session]
       /\ command[handle[h].session].st # "run"
  \/ handle[h].pc = "RecvOut" /\ ~ReplyComing(handle[h].session)

\* C16: what goes wrong in the session of one sid stays there: a Handle call
\* for another sid is never kept waiting for the mutex by a call that cannot
\* return, and the process is not brought down while another sid has a
\* session.
C16_Isolation ==
  /\ \A h, g \in Handlers :
       (handle[h].pc = "Lock" /\ cmdSessionsMutex = H(g) /\ handle[g].sid # handle[h].sid)
         => ~Blocked(g)
  /\ crashed => \A c \in Sessions : command[c].st \in {"none", "exit"}

\* C18: every Handle call returns and releases cmdSessionsMutex: while a call
\* is under way and the process is up, some step can be taken.
C18_HandleReturns ==
  (\E h \in Handlers : handle[h].pc # "idle") => (crashed \/ ENABLED NextRepl)

\* C19: the cleanup goroutine closes the input channel of a session that is
\* registered under its sid and not yet closed, and Handle never sends on a
\* closed input channel.
C19_CloseOnce ==
  /\ \A c \in Sessions :
       cleanup[c].st = "close" =>
         /\ cmdSessions[cleanup[c].sid] # 0
         /\ ~inClosed[cmdSessions[cleanup[c].sid]]
  /\ \A h \in Handlers : handle[h].pc = "SendIn" => ~inClosed[handle[h].session]
====
